---- MODULE Spec2Model ----
(***************************************************************************)
(* Model of the vocal model lifecycle manager: the adapter pools of        *)
(* TranscriptionService / TTSService (keep-alive sweep, acquire), the      *)
(* ModelRegistry (list/get/download/delete), the ModelMetadataCache and    *)
(* ModelService's download status map.                                     *)
(*                                                                         *)
(* Model ids, directory names and file names are sequences of characters   *)
(* so that the '/' <-> '--' escaping is computed, not assumed.             *)
(***************************************************************************)
EXTENDS Integers, Sequences, FiniteSets, TLC

\* ------------------------------------------------------------------ bounds
MaxTicks == 7
MaxReq == 2
MaxEngines == 2
MaxDl == 1
MaxChunks == 2
MaxTasks == 2

\* ------------------------------------------------------- program constants
KeepAliveSeconds == 300
SweepInterval == 60

\* Python None where a string or path is expected
None == << >>

\* ------------------------------------------------------------- model ids
IdWhisper == <<"s", "/", "w">>
AliasWhisper == <<"w">>
IdKokoro == <<"h", "/", "k">>
AliasKokoro == <<"k">>
IdDashed == <<"s", "-", "-", "w">>
PYTTSX3 == <<"pyttsx3">>

\* supported_models.json as the provider loads it: id, alias, task, backend
Catalog ==
  { [id |-> IdWhisper, alias |-> AliasWhisper, task |-> "stt", backend |-> "faster_whisper"],
    [id |-> IdKokoro, alias |-> AliasKokoro, task |-> "tts", backend |-> "kokoro"] }

\* HuggingFaceProvider._resolve_alias
ResolveAlias(m) ==
  IF \E c \in Catalog : c.alias = m
    THEN (CHOOSE c \in Catalog : c.alias = m).id
    ELSE m

\* HuggingFaceProvider.get_model_info: "model_id in supported" ...
InCatalog(m) == \E c \in Catalog : c.id = ResolveAlias(m)
\* ... and the descriptor it then returns
ProviderGetModelInfo(m) == CHOOSE c \in Catalog : c.id = ResolveAlias(m)

\* ------------------------------------------------- path escaping (pure)
RECURSIVE Encode(_)
\* str.replace("/", "--")
Encode(s) ==
  IF s = <<>> THEN <<>>
  ELSE IF Head(s) = "/" THEN <<"-", "-">> \o Encode(Tail(s))
  ELSE <<Head(s)>> \o Encode(Tail(s))

RECURSIVE Decode(_)
\* str.replace("--", "/"): leftmost, non-overlapping
Decode(s) ==
  IF s = <<>> THEN <<>>
  ELSE IF Len(s) >= 2 /\ s[1] = "-" /\ s[2] = "-"
    THEN <<"/">> \o Decode(SubSeq(s, 3, Len(s)))
  ELSE <<Head(s)>> \o Decode(Tail(s))

\* ModelRegistry._get_model_path: the directory name under the storage root
ModelDir(m) == Encode(m)

\* ModelMetadataCache._get_cache_path: the file name under the metadata dir
CachePath(m) == Encode(m) \o <<".json">>

VARIABLES
  dirs,          \* storage root: directory name -> [config, size]
  docs,          \* metadata dir: file name -> document
  poolKind,      \* which service the pool belongs to: "stt" | "tts"
  adapters,      \* self.adapters: model id -> engine
  last_used,     \* self.last_used: insertion-ordered <<id, time>> pairs
  cleanup_task,  \* self._cleanup_task is not None
  tasks,         \* number of sweep tasks handed to asyncio.create_task
  sweepPc,       \* position of _cleanup_loop
  wakeAt,        \* time at which asyncio.sleep(60) returns
  toUnload,      \* models_to_unload still to be processed in this tick
  sweepEng,      \* the adapter whose unload_model the sweep is awaiting
  tickSelected,  \* <<id, engine>> pairs found idle when the tick began
  engine,        \* engine instances created so far
  req,           \* request handlers in flight
  lastRes,       \* how the most recently ended call on the service ended
  now,           \* time.time()
  dl,            \* download_model generators being consumed
  started,       \* model ids for which download_model was ever started
  availIds,      \* ids whose last download ended "available", not deleted since
  providers,     \* self.providers of the registry: <<name, kind>> pairs in
                 \* registration order
  download_status, \* ModelService._download_status: model id -> snapshot
  lastOp,        \* the most recent call on the metadata cache and its result
  delResp        \* the answer to the last DELETE /v1/models/{id} that met no
                 \* file-system fault and no download of id in flight: a 200
                 \* is kept until id is downloaded again, a 404 for one step

poolVars == <<poolKind, adapters, last_used, cleanup_task, tasks, sweepPc, wakeAt,
              toUnload, sweepEng, tickSelected, engine, req, lastRes, now>>
fsVars == <<dirs, docs>>
regVars == <<dl, started, availIds, delResp>>
svcVars == <<providers, download_status, lastOp>>

\* ------------------------------------------------------ dict helpers
Keys(lu) == { lu[i][1] : i \in 1..Len(lu) }
Get(lu, k) == (CHOOSE i \in 1..Len(lu) : lu[i][1] = k)
\* d[k] = v: an existing key keeps its position, a new key is appended
Put(lu, k, v) ==
  IF k \in Keys(lu)
    THEN [lu EXCEPT ![Get(lu, k)] = <<k, v>>]
    ELSE Append(lu, <<k, v>>)
\* a faulty removal that leaves the timestamp behind
DelKeepsEntry(lu, k) == lu
\* del d[k]
Del(lu, k) == SelectSeq(lu, LAMBDA p : p[1] # k)
MapDel(f, k) == [x \in (DOMAIN f) \ {k} |-> f[x]]
MapPut(f, k, v) == [x \in (DOMAIN f) \cup {k} |-> IF x = k THEN v ELSE f[x]]

\* ModelRegistry.get_model_path: the path if the directory exists, else None
GetModelPath(m) == IF ModelDir(m) \in DOMAIN dirs THEN ModelDir(m) ELSE None


\* "if not model_info" in the services: ModelRegistry.get_model returned a
\* descriptor
RegistryKnows(m) == InCatalog(m)

\* ============================================================= registry
Dls == 1..MaxDl

\* the ids handed to download_model / delete_model: a catalog id, its alias,
\* and an id outside the catalog that contains "--"
RegIds == {IdWhisper, AliasWhisper, IdDashed}

\* self.providers: "huggingface" from the constructor, "mirror" registered
\* through add_provider; "nope" is a name that was never registered
ProviderNames == {"huggingface", "mirror"}
ProviderInputs == ProviderNames \cup {"nope"}

\* hasattr(provider, "fetch_metadata_from_hf")
HasFetchMetadata(prov) == prov = "huggingface"

\* progress tuples a provider may report: partial, complete
Chunks == { <<400, 1000>>, <<1000, 1000>> }
\* sizes of a finished snapshot
SnapshotSizes == {1000}
\* the size the hub reports in the fetched metadata
HubSize == 900

RECURSIVE HasDoubleDash(_)
HasDoubleDash(s) ==
  IF Len(s) < 2 THEN FALSE
  ELSE IF s[1] = "-" /\ s[2] = "-" THEN TRUE
  ELSE HasDoubleDash(Tail(s))

\* snapshot_download(model_id, ...) only succeeds for a valid hub repo id
SnapshotCanSucceed(m) == ~HasDoubleDash(ResolveAlias(m))

\* the event tuples download_model yields
InitialEvent == <<0, 0, "downloading">>
\* a faulty forward that reports the total as the downloaded count
ForwardTotal(c) == <<c[2], c[2], "downloading">>
Forward(c) == <<c[1], c[2], "downloading">>
\* a faulty terminal event that carries no byte counts
AvailableEventZero(total) == <<0, 0, "available">>
AvailableEvent(total) == <<total, total, "available">>
ErrorEvent == <<0, 0, "error">>

IdleDl == [pc |-> "idle", id |-> None, prov |-> "", events |-> << >>,
           reported |-> << >>, provStarted |-> FALSE, verified |-> FALSE,
           setFailed |-> FALSE, raised |-> FALSE, svc |-> FALSE, abandoned |-> FALSE]

\* no DELETE call on record
NoDelete == [id |-> None, existed |-> FALSE, ret |-> FALSE, code |-> 0]

\* a not-found answer is forgotten once the next registry operation runs
Settled == IF delResp.existed THEN delResp ELSE NoDelete

\* the content of a metadata file: a JSON object with its attributes, text
\* that is not JSON, or bytes that are not text in the platform's encoding
JsonDoc(attrs) == [form |-> "json", attrs |-> attrs]
NotJson == [form |-> "notjson", attrs |-> << >>]
Undecodable == [form |-> "undecodable", attrs |-> << >>]

\* dict.get(key, default)
Attr(d, k, default) == IF k \in DOMAIN d THEN d[k] ELSE default

\* "if cached_metadata:" a dict is true when it is not empty
Truthy(c) == DOMAIN c # {}

\* ModelMetadataCache.get raises: json.load decodes the file as text first,
\* and the except clause names only JSONDecodeError and OSError
CacheGetRaises(m) ==
  CachePath(m) \in DOMAIN docs /\ docs[CachePath(m)].form = "undecodable"

\* ModelMetadataCache.get: the document, or absent ({}), as a set; a missing
\* file and a file that is not JSON are both absent
CacheGet(m) ==
  IF CachePath(m) \in DOMAIN docs /\ docs[CachePath(m)].form = "json"
    THEN {docs[CachePath(m)].attrs}
    ELSE {}

\* a faulty set that keeps the caller's dict as it is
StampedUnstamped(m, metadata) == metadata

\* metadata.copy(), then model_id and cached_at are written over it
Stamped(m, metadata) == MapPut(MapPut(metadata, "model_id", m), "cached_at", now)

\* ModelMetadataCache.set: the stamped copy is dumped as a JSON object
CacheSet(m, metadata) == MapPut(docs, CachePath(m), JsonDoc(Stamped(m, metadata)))

\* HuggingFaceProvider.fetch_metadata_from_hf with local_path added by the
\* registry
FetchedMetadataNoPath(m, destination) ==
  [model_id |-> m, size |-> HubSize, local_path |-> None]
\* fetch_metadata_from_hf's result with metadata["local_path"] = str(destination)
FetchedMetadata(m, destination) ==
  [model_id |-> m, size |-> HubSize, local_path |-> destination]

\* a faulty check that accepts every directory
VerifyModelAlways(local_path) == TRUE

\* HuggingFaceProvider.verify_model
VerifyModel(local_path) == local_path \in DOMAIN dirs /\ dirs[local_path].config

\* an optional string argument left at its default (None)
NoFilter == "None"

\* the values of the ModelTask enum
TaskValues == {"stt", "tts"}

\* list_models raises at directory n: the cache read raises, or the cached
\* task is not a value of ModelTask (nothing in list_models catches)
ListRaisesAt(n) ==
  \/ CacheGetRaises(Decode(n))
  \/ \E c \in CacheGet(Decode(n)) : Truthy(c) /\ Attr(c, "task", "stt") \notin TaskValues

\* "if task and ...", "if status_filter and ...": None and the empty
\* string are both false
Falsy(arg) == arg \in {NoFilter, ""}

\* a faulty filter that lets every model through
KeepsTaskAlways(task, model_task) == TRUE

\* "if task and model.task.value != task: continue"
KeepsTask(task, model_task) == Falsy(task) \/ model_task = task

\* the directories list_models visits
ListedDirs == { n \in DOMAIN dirs : n # <<"h", "f">> }

ListModelsRaises == \E n \in ListedDirs : ListRaisesAt(n)

\* ModelRegistry.list_models; the empty set when it raises
ListModels(task, status_filter) ==
  LET Descr(n) ==
        LET model_id == Decode(n)
            cached == CacheGet(model_id)
        IN IF cached # {} /\ Truthy(CHOOSE c \in cached : TRUE)
             THEN [id |-> model_id, status |-> "available",
                   task |-> Attr(CHOOSE c \in cached : TRUE, "task", "stt"),
                   backend |-> "transformers", local_path |-> n,
                   size |-> Attr(CHOOSE c \in cached : TRUE, "size", 0)]
             ELSE [id |-> model_id, status |-> "available", task |-> "stt",
                   backend |-> "transformers", local_path |-> n,
                   size |-> dirs[n].size]
      all_models == { Descr(n) : n \in ListedDirs }
      filtered == { x \in all_models : KeepsTask(task, x.task) }
  IN IF ListModelsRaises THEN {}
     ELSE IF ~Falsy(status_filter) /\ status_filter # "available" THEN {}
     ELSE filtered

\* self.providers as the constructor leaves it
DefaultProviders == << <<"huggingface", "hf">> >>

\* what a custom provider's get_model_info may do: return None, raise, or
\* return a descriptor for the id it was asked about
ProviderKinds == {"absent", "raises", "knows"}

\* provider.get_model_info(m) raises
ProviderRaises(kind, m) == kind = "raises"

\* provider.get_model_info(m): the descriptor, or absent ({}), as a set
ProviderInfo(kind, m) ==
  IF kind = "hf"
    THEN IF InCatalog(m)
           THEN { [id |-> ProviderGetModelInfo(m).id, task |-> ProviderGetModelInfo(m).task,
                   backend |-> ProviderGetModelInfo(m).backend] }
           ELSE {}
  ELSE IF kind = "knows"
    THEN { [id |-> m, task |-> "stt", backend |-> "transformers"] }
  ELSE {}

\* the overlay of get_model raises: the cache read raises, or the cached
\* parameter count is text, which the "," format rejects
OverlayRaises(m) ==
  \/ CacheGetRaises(m)
  \/ \E c \in CacheGet(m) :
       /\ "actual_parameter_count" \in DOMAIN c
       /\ c.actual_parameter_count[1] = "str"

\* a faulty overlay that reports every known model as available
LocalStatusAlways(exists) == "available"

\* the status get_model leaves on the descriptor: the provider's
\* not_downloaded unless the storage directory exists
LocalStatus(exists) == IF exists THEN "available" ELSE "not_downloaded"

\* the descriptor get_model returns once a provider has answered
Overlaid(info, m) ==
  LET exists == ModelDir(m) \in DOMAIN dirs
      cached == CacheGet(m)
  IN [id |-> info.id, task |-> info.task, backend |-> info.backend,
      status |-> LocalStatus(exists),
      local_path |-> IF exists THEN ModelDir(m) ELSE None,
      size |-> IF exists /\ cached # {} /\ Truthy(CHOOSE c \in cached : TRUE)
                 THEN Attr(CHOOSE c \in cached : TRUE, "size", 0)
                 ELSE 0]

\* "for provider in self.providers.values()": the i-th provider asked
ProviderAt(i) == providers[i]

RECURSIVE GetModelFrom(_, _)
\* the loop of get_model from the i-th provider on: an exception inside the
\* try (from the provider or from the overlay) is printed and the next
\* provider is asked
GetModelFrom(i, m) ==
  IF i > Len(providers) THEN {}
  ELSE LET kind == ProviderAt(i)[2] IN
    IF ProviderRaises(kind, m) THEN GetModelFrom(i + 1, m)
    ELSE IF ProviderInfo(kind, m) = {} THEN GetModelFrom(i + 1, m)
    ELSE IF ModelDir(m) \in DOMAIN dirs /\ OverlayRaises(m) THEN GetModelFrom(i + 1, m)
    ELSE { Overlaid(CHOOSE x \in ProviderInfo(kind, m) : TRUE, m) }

\* ModelRegistry.get_model: the descriptor of the first provider that knows
\* the id, overlaid with the local state; absent is the empty set
GetModel(m) == GetModelFrom(1, m)

\* no call on the metadata cache on record
NoOp == [op |-> "none", id |-> None, ret |-> FALSE, had |-> FALSE]

\* the percentage downloaded / total, 0 when the total is 0
Progress(downloaded, total) == IF total > 0 THEN (downloaded * 100) \div total ELSE 0

\* the ModelDownloadProgress ModelService builds from a registry event
Snapshot(e) ==
  [status |-> e[3], progress |-> Progress(e[1], e[2]),
   downloaded_bytes |-> e[1], total_bytes |-> e[2]]

\* the snapshot of the except clause of ModelService.download_model
ErrorSnapshot == [status |-> "error", progress |-> 0, downloaded_bytes |-> 0, total_bytes |-> 0]

\* the body of ModelService's "async for": when stream d is consumed by
\* ModelService and this step yields an event, the status of its id is
\* replaced by the snapshot of that event
Consumed(d) ==
  IF dl'[d].svc /\ Len(dl'[d].events) > Len(dl[d].events)
    THEN MapPut(download_status, dl[d].id, Snapshot(dl'[d].events[Len(dl'[d].events)]))
  ELSE IF dl'[d].svc /\ dl'[d].raised /\ ~dl[d].raised
    THEN MapPut(download_status, dl[d].id, ErrorSnapshot)
  ELSE download_status

\* the consumer's first pull: the provider name is checked, then the initial
\* event is yielded
DlStart(d, m, prov) ==
  /\ dl[d].pc = "idle"
  /\ started' = started \cup {m}
  /\ IF prov \notin Keys(providers)
       THEN dl' = [dl EXCEPT ![d] = [IdleDl EXCEPT !.pc = "done", !.id = m,
                                      !.prov = prov, !.raised = TRUE]]
       ELSE dl' = [dl EXCEPT ![d] = [IdleDl EXCEPT !.pc = "yielded0", !.id = m,
                                      !.prov = prov, !.events = <<InitialEvent>>]]
  /\ delResp' = IF delResp.id = m THEN NoDelete ELSE Settled
  /\ UNCHANGED <<fsVars, availIds, poolVars, providers, lastOp>>
  /\ download_status' = Consumed(d)

\* the next pull enters provider.download_model: the destination directory
\* is created and the transfer is awaited
DlBegin(d) ==
  /\ dl[d].pc = "yielded0"
  /\ dl' = [dl EXCEPT ![d].pc = "transfer", ![d].provStarted = TRUE]
  /\ dirs' = IF ModelDir(dl[d].id) \in DOMAIN dirs THEN dirs
             ELSE MapPut(dirs, ModelDir(dl[d].id), [config |-> FALSE, size |-> 0])
  /\ UNCHANGED <<docs, started, availIds, poolVars, providers, lastOp>>
  /\ download_status' = Consumed(d)
  /\ delResp' = Settled

\* a faulty except clause that swallows the exception without an event
OnExceptionSilent(events) == events

\* the except clause of download_model: the exception becomes the terminal
\* error event
OnException(events) == Append(events, ErrorEvent)

\* a faulty generator that hands its newest event over first
EmitFront(events, e) == <<e>> \o events

\* "yield": the consumer receives the events in the order they are yielded
Emit(events, e) == Append(events, e)

\* the provider reports progress c after writing files; the registry
\* forwards it.  The hub provider reports once, (total, total), when the
\* snapshot is complete.
DlChunk(d, c, cfg) ==
  /\ dl[d].pc = "transfer"
  /\ Len(dl[d].reported) < MaxChunks
  /\ dl[d].prov = "huggingface" =>
       /\ dl[d].reported = << >>
       /\ SnapshotCanSucceed(dl[d].id)
       /\ c \in { <<z, z>> : z \in SnapshotSizes }
  /\ dl[d].prov = "mirror" => c \in Chunks
  /\ dirs' = MapPut(dirs, ModelDir(dl[d].id),
                    [config |-> cfg \/ (ModelDir(dl[d].id) \in DOMAIN dirs
                                         /\ dirs[ModelDir(dl[d].id)].config),
                     size |-> c[1]])
  /\ dl' = [dl EXCEPT ![d].reported = Append(@, c),
                      ![d].events = Emit(@, Forward(c))]
  /\ UNCHANGED <<docs, started, availIds, poolVars, providers, lastOp>>
  /\ download_status' = Consumed(d)
  /\ delResp' = Settled

\* the provider's download raises
DlRaise(d) ==
  /\ dl[d].pc = "transfer"
  /\ dl[d].prov = "huggingface" => dl[d].reported = << >>
  /\ dl' = [dl EXCEPT ![d].pc = "done", ![d].events = OnException(@)]
  /\ UNCHANGED <<fsVars, started, availIds, poolVars, providers, lastOp>>
  /\ download_status' = Consumed(d)
  /\ delResp' = Settled

\* "yield (total, total, AVAILABLE)": total is the loop variable of the
\* async for, unbound when the provider reported nothing
YieldAvailable(d) ==
  IF dl[d].reported = << >>
    THEN /\ dl' = [dl EXCEPT ![d].pc = "done", ![d].verified = TRUE,
                             ![d].events = OnException(@)]
         /\ UNCHANGED availIds
    ELSE /\ dl' = [dl EXCEPT ![d].pc = "done", ![d].verified = TRUE,
                             ![d].events = Append(@, AvailableEvent(
                                dl[d].reported[Len(dl[d].reported)][2]))]
         /\ availIds' = availIds \cup {dl[d].id}

\* the provider's stream ends; verify_model runs; a provider with
\* fetch_metadata_from_hf is then awaited
DlStreamEnd(d, verifyRaises) ==
  /\ dl[d].pc = "transfer"
  /\ dl[d].prov = "huggingface" => dl[d].reported # << >>
  /\ IF verifyRaises
       THEN /\ dl' = [dl EXCEPT ![d].pc = "done", ![d].events = OnException(@)]
            /\ UNCHANGED availIds
       ELSE IF ~VerifyModel(ModelDir(dl[d].id))
         THEN /\ dl' = [dl EXCEPT ![d].pc = "done", ![d].events = Append(@, ErrorEvent)]
              /\ UNCHANGED availIds
       ELSE IF HasFetchMetadata(dl[d].prov)
         THEN /\ dl' = [dl EXCEPT ![d].pc = "fetching", ![d].verified = TRUE]
              /\ UNCHANGED availIds
       ELSE YieldAvailable(d)
  /\ UNCHANGED <<fsVars, started, poolVars, providers, lastOp>>
  /\ download_status' = Consumed(d)
  /\ delResp' = Settled

\* fetch_metadata_from_hf returns metadata or None; metadata is written to
\* the cache (the write may fail), then the available event is yielded
DlFetchDone(d, hasMeta, writeOk) ==
  /\ dl[d].pc = "fetching"
  /\ IF hasMeta /\ ~writeOk
       THEN /\ dl' = [dl EXCEPT ![d].pc = "done", ![d].setFailed = TRUE,
                                ![d].events = OnException(@)]
            /\ UNCHANGED <<docs, availIds>>
       ELSE /\ docs' = IF hasMeta
                         THEN CacheSet(dl[d].id, FetchedMetadata(dl[d].id, ModelDir(dl[d].id)))
                         ELSE docs
            /\ YieldAvailable(d)
  /\ UNCHANGED <<dirs, started, poolVars, providers, lastOp>>
  /\ download_status' = Consumed(d)
  /\ delResp' = Settled

\* the consumer is done with the generator
DlClose(d) ==
  /\ dl[d].pc = "done"
  /\ dl' = [dl EXCEPT ![d] = IdleDl]
  /\ UNCHANGED <<fsVars, started, availIds, poolVars, providers, lastOp>>
  /\ download_status' = Consumed(d)
  /\ delResp' = Settled

\* snapshot_download is running in the executor thread and the generator
\* is suspended in "await loop.run_in_executor(...)"
TransferRunning(d) ==
  dl[d].pc = "transfer" /\ dl[d].prov = "huggingface" /\ dl[d].reported = << >>

\* the consumer stops pulling the stream before the terminal event: after
\* an event it leaves the async for, or it is cancelled while it awaits the
\* next event.  CancelledError and GeneratorExit pass "except Exception",
\* so no event follows; cancelling the awaiting task does not stop the
\* executor thread
DlAbandon(d) ==
  /\ dl[d].pc \in {"yielded0", "transfer"}
  /\ dl' = [dl EXCEPT ![d].abandoned = TRUE,
                      ![d].pc = IF TransferRunning(d) THEN "orphan" ELSE "done"]
  /\ UNCHANGED <<fsVars, started, availIds, poolVars, svcVars>>
  /\ delResp' = Settled

\* the executor thread of an abandoned download completes the snapshot
OrphanWrite(d, z, cfg) ==
  /\ dl[d].pc = "orphan"
  /\ SnapshotCanSucceed(dl[d].id)
  /\ dirs' = MapPut(dirs, ModelDir(dl[d].id),
                    [config |-> cfg \/ (ModelDir(dl[d].id) \in DOMAIN dirs
                                         /\ dirs[ModelDir(dl[d].id)].config),
                     size |-> z])
  /\ dl' = [dl EXCEPT ![d].pc = "done"]
  /\ UNCHANGED <<docs, started, availIds, poolVars, svcVars>>
  /\ delResp' = Settled

\* the executor thread of an abandoned download ends by raising
OrphanRaise(d) ==
  /\ dl[d].pc = "orphan"
  /\ dl' = [dl EXCEPT ![d].pc = "done"]
  /\ UNCHANGED <<fsVars, started, availIds, poolVars, svcVars>>
  /\ delResp' = Settled

\* a faulty route that answers 200 whatever delete_model returned
DeleteStatusAlwaysOk(success) == 200

\* the delete route: 404 when service.delete_model returned false
DeleteStatus(success) == IF success THEN 200 ELSE 404

\* a download_model stream for m has been started and not yet closed
Downloading(m) == \E d \in DOMAIN dl : dl[d].pc # "idle" /\ dl[d].id = m

\* DELETE /v1/models/{id}: the route, ModelService.delete_model and
\* ModelRegistry.delete_model; rmtree and the unlink of the cache document
\* may fail
DeleteModel(m, rmOk, unlinkOk) ==
  LET existed == ModelDir(m) \in DOMAIN dirs
      ret == existed /\ rmOk
      unlinkFails == ret /\ ~unlinkOk /\ CachePath(m) \in DOMAIN docs
  IN
  /\ IF ret
       THEN /\ dirs' = MapDel(dirs, ModelDir(m))
            /\ docs' = IF unlinkFails THEN docs ELSE MapDel(docs, CachePath(m))
            /\ availIds' = availIds \ {m}
       ELSE UNCHANGED <<dirs, docs, availIds>>
  /\ delResp' = IF existed /\ (~rmOk \/ unlinkFails \/ Downloading(m))
                  THEN NoDelete
                  ELSE [id |-> m, existed |-> existed, ret |-> ret,
                        code |-> DeleteStatus(ret)]
  /\ UNCHANGED <<dl, started, poolVars, svcVars>>

\* ================================================================ pools
PoolIds == {IdWhisper, IdKokoro, PYTTSX3}
Reqs == 1..MaxReq

KOKORO_AVAILABLE == TRUE

\* which adapter class the pool instantiates for a model
\* (TranscriptionService: always FasterWhisperAdapter; TTSService._create_adapter)
AdapterKind(kind, backend) ==
  IF kind = "stt" THEN "faster_whisper"
  ELSE IF backend = "kokoro" THEN "kokoro"
  ELSE "simple"

\* load_model reaches the event loop only where the adapter awaits an
\* executor: KokoroTTSAdapter.load_model does, FasterWhisperAdapter and
\* SimpleTTSAdapter do not
LoadSuspends(k) == k = "kokoro"

NewEngine(m, k, st) == [id |-> m, kind |-> k, state |-> st, loads |-> 1, unloads |-> 0]

IdleReq == [pc |-> "idle", id |-> None, eng |-> 0]

\* how a handler ended: the kind of outcome and the text of the error
Result(kind, msg) == [kind |-> kind, msg |-> msg]

\* the ValueError texts of transcribe / synthesize, as their parts
NotFoundMessage(m) == <<"Model ", m, " not found in registry">>
NotTTSMessage(m) == <<"Model ", m, " is not a TTS model">>
\* a faulty text that names neither the model nor the download operation
NotDownloadedMessageBare(m) == <<"Model not downloaded">>
NotDownloadedMessage(m) ==
  <<"Model ", m, " not downloaded. Download it first: POST /v1/models/", m, "/download">>

\* the handler raises before any adapter is created
Fail(r, why, msg) ==
  /\ req' = [req EXCEPT ![r] = IdleReq]
  /\ lastRes' = Result(why, msg)
  /\ UNCHANGED <<adapters, last_used, engine>>

\* a faulty acquire that returns the stored handle without stamping it
UseExistingUnstamped(r, m) ==
  /\ req' = [req EXCEPT ![r] = [pc |-> "using", id |-> m, eng |-> adapters[m]]]
  /\ UNCHANGED <<adapters, engine, lastRes, last_used>>

\* _get_or_create_adapter when the handle exists, then last_used[id] = now
UseExisting(r, m) ==
  /\ req' = [req EXCEPT ![r] = [pc |-> "using", id |-> m, eng |-> adapters[m]]]
  /\ last_used' = Put(last_used, m, now)
  /\ UNCHANGED <<adapters, engine, lastRes>>

\* _get_or_create_adapter when no handle is stored: create the adapter and
\* call load_model; a suspending load leaves the handler inside the await
CreateAndLoad(r, m, k, ok) ==
  IF LoadSuspends(k)
    THEN /\ engine' = Append(engine, NewEngine(m, k, "loading"))
         /\ req' = [req EXCEPT ![r] = [pc |-> "loading", id |-> m, eng |-> Len(engine) + 1]]
         /\ UNCHANGED <<adapters, last_used, lastRes>>
    ELSE IF ok
      THEN /\ engine' = Append(engine, NewEngine(m, k, "loaded"))
           /\ adapters' = MapPut(adapters, m, Len(engine) + 1)
           /\ last_used' = Put(last_used, m, now)
           /\ req' = [req EXCEPT ![r] = [pc |-> "using", id |-> m, eng |-> Len(engine) + 1]]
           /\ UNCHANGED lastRes
      ELSE /\ engine' = Append(engine, NewEngine(m, k, "failed"))
           /\ req' = [req EXCEPT ![r] = IdleReq]
           /\ lastRes' = Result("load_error", <<"load_model failed">>)
           /\ UNCHANGED <<adapters, last_used>>

\* TranscriptionService.transcribe up to the first suspension
Transcribe(r, m, ok) ==
  IF ~RegistryKnows(m) THEN Fail(r, "not_found", NotFoundMessage(m))
  ELSE IF GetModelPath(m) = None THEN Fail(r, "not_downloaded", NotDownloadedMessage(m))
  ELSE IF m \in DOMAIN adapters THEN UseExisting(r, m)
  ELSE /\ Len(engine) < MaxEngines
       /\ CreateAndLoad(r, m, AdapterKind("stt", ProviderGetModelInfo(m).backend), ok)

\* TTSService.synthesize up to the first suspension
Synthesize(r, m, ok) ==
  IF m = PYTTSX3
    THEN IF m \in DOMAIN adapters THEN UseExisting(r, m)
         ELSE /\ Len(engine) < MaxEngines
              /\ CreateAndLoad(r, m, "simple", ok)
  ELSE IF ~RegistryKnows(m) THEN Fail(r, "not_found", NotFoundMessage(m))
  ELSE IF ProviderGetModelInfo(m).task # "tts" THEN Fail(r, "not_tts", NotTTSMessage(m))
  ELSE IF GetModelPath(m) = None THEN Fail(r, "not_downloaded", NotDownloadedMessage(m))
  ELSE IF m \in DOMAIN adapters THEN UseExisting(r, m)
  ELSE /\ Len(engine) < MaxEngines
       /\ KOKORO_AVAILABLE
       /\ CreateAndLoad(r, m, AdapterKind("tts", ProviderGetModelInfo(m).backend), ok)

\* a transcribe / synthesize request arrives
ReqStart(r, m, ok) ==
  /\ req[r].pc = "idle"
  /\ IF poolKind = "stt" THEN Transcribe(r, m, ok) ELSE Synthesize(r, m, ok)
  /\ UNCHANGED <<poolKind, cleanup_task, tasks, sweepPc, wakeAt, toUnload, sweepEng, tickSelected, now>>
  /\ UNCHANGED <<fsVars, regVars, svcVars>>

\* the awaited load_model returns or raises; on return the handler stores
\* its adapter, returns self.adapters[id] and stamps last_used
ReqLoadDone(r, ok) ==
  /\ req[r].pc = "loading"
  /\ IF ok
       THEN /\ engine' = [engine EXCEPT ![req[r].eng].state = "loaded"]
            /\ adapters' = MapPut(adapters, req[r].id, req[r].eng)
            /\ last_used' = Put(last_used, req[r].id, now)
            /\ req' = [req EXCEPT ![r].pc = "using"]
            /\ UNCHANGED lastRes
       ELSE /\ engine' = [engine EXCEPT ![req[r].eng].state = "failed"]
            /\ req' = [req EXCEPT ![r] = IdleReq]
            /\ lastRes' = Result("load_error", <<"load_model failed">>)
            /\ UNCHANGED <<adapters, last_used>>
  /\ UNCHANGED <<poolKind, cleanup_task, tasks, sweepPc, wakeAt, toUnload, sweepEng, tickSelected, now>>
  /\ UNCHANGED <<fsVars, regVars, svcVars>>

\* adapter.transcribe / adapter.synthesize returns; the adapters raise
\* RuntimeError / ValueError when their model is no longer loaded
ReqFinish(r) ==
  /\ req[r].pc = "using"
  /\ req' = [req EXCEPT ![r] = IdleReq]
  /\ lastRes' = IF engine[req[r].eng].state = "loaded"
                  THEN Result("ok", << >>)
                  ELSE Result("engine_error", <<"model not loaded">>)
  /\ UNCHANGED <<poolKind, adapters, last_used, cleanup_task, tasks, sweepPc, wakeAt,
                 toUnload, sweepEng, tickSelected, engine, now>>
  /\ UNCHANGED <<fsVars, regVars, svcVars>>


\* ------------------------------------------------------ keep-alive sweep
\* a faulty test that takes every call for the first
NoTaskYetAlways(task) == TRUE

\* "if self._cleanup_task is None"
NoTaskYet(task) == ~task

\* start_cleanup_task: creates the sweep task only when there is none
StartCleanupTask ==
  /\ IF NoTaskYet(cleanup_task)
       THEN /\ cleanup_task' = TRUE
            /\ tasks' = tasks + 1
            /\ sweepPc' = "sleeping"
            /\ wakeAt' = now + SweepInterval
            /\ lastRes' = Result("task_created", << >>)
       ELSE /\ lastRes' = Result("task_exists", << >>)
            /\ UNCHANGED <<cleanup_task, tasks, sweepPc, wakeAt>>
  /\ UNCHANGED <<poolKind, adapters, last_used, toUnload, sweepEng, tickSelected, engine, req, now>>
  /\ UNCHANGED <<fsVars, regVars, svcVars>>

\* the idle test of _cleanup_loop
IsIdle(current_time, last_used_time) == current_time - last_used_time > KeepAliveSeconds

\* models_to_unload: the ids of last_used, in dict order, that are idle
ModelsToUnload(lu, current_time) ==
  LET idle == SelectSeq(lu, LAMBDA p : IsIdle(current_time, p[2]))
  IN [i \in 1..Len(idle) |-> idle[i][1]]

RECURSIVE SkipAbsent(_, _)
\* "if model_id in self.adapters": ids without a handle are passed over
SkipAbsent(list, adp) ==
  IF list = <<>> THEN <<>>
  ELSE IF Head(list) \in DOMAIN adp THEN list
  ELSE SkipAbsent(Tail(list), adp)

\* the second for loop of _cleanup_loop from `list` on, up to the next await:
\* either unload_model is invoked on the next handle or the tick is over
SweepContinue(list, adp, eng, sel) ==
  LET rest == SkipAbsent(list, adp) IN
  IF rest = <<>>
    THEN /\ sweepPc' = "sleeping"
         /\ wakeAt' = now + SweepInterval
         /\ toUnload' = <<>>
         /\ sweepEng' = 0
         /\ tickSelected' = {}
         /\ engine' = eng
    ELSE /\ sweepPc' = "unloading"
         /\ toUnload' = rest
         /\ sweepEng' = adp[Head(rest)]
         /\ engine' = [eng EXCEPT ![adp[Head(rest)]].state = "unloading",
                                  ![adp[Head(rest)]].unloads = @ + 1]
         /\ tickSelected' = sel
         /\ UNCHANGED wakeAt

\* asyncio.sleep(60) returns: a tick begins
SweepBegin ==
  /\ cleanup_task
  /\ sweepPc = "sleeping"
  /\ now >= wakeAt
  /\ LET list == ModelsToUnload(last_used, now) IN
       SweepContinue(list, adapters, engine,
                     { <<list[i], adapters[list[i]]>> :
                         i \in { j \in 1..Len(list) : list[j] \in DOMAIN adapters } })
  /\ UNCHANGED <<poolKind, adapters, last_used, cleanup_task, tasks, req, lastRes, now>>
  /\ UNCHANGED <<fsVars, regVars, svcVars>>

\* a faulty loop that an exception ends
AfterTickExceptionStops == "stopped"

\* "except Exception: pass" inside "while True": the loop goes back to its
\* sleep
AfterTickException == "sleeping"

\* the awaited unload_model returns or raises; "except Exception: pass"
\* abandons the rest of the tick
SweepUnloadDone(ok) ==
  /\ sweepPc = "unloading"
  /\ IF ok
       THEN /\ adapters' = MapDel(adapters, Head(toUnload))
            /\ last_used' = Del(last_used, Head(toUnload))
            /\ SweepContinue(Tail(toUnload), MapDel(adapters, Head(toUnload)),
                             [engine EXCEPT ![sweepEng].state = "unloaded"], tickSelected)
       ELSE /\ engine' = [engine EXCEPT ![sweepEng].state = "broken"]
            /\ sweepPc' = AfterTickException
            /\ wakeAt' = now + SweepInterval
            /\ toUnload' = <<>>
            /\ sweepEng' = 0
            /\ tickSelected' = {}
            /\ UNCHANGED <<adapters, last_used>>
  /\ UNCHANGED <<poolKind, cleanup_task, tasks, req, lastRes, now>>
  /\ UNCHANGED <<fsVars, regVars, svcVars>>

\* time passes
Tick ==
  /\ now < MaxTicks * SweepInterval
  /\ now' = now + SweepInterval
  /\ UNCHANGED <<poolKind, adapters, last_used, cleanup_task, tasks, sweepPc, wakeAt,
                 toUnload, sweepEng, tickSelected, engine, req, lastRes>>
  /\ UNCHANGED <<fsVars, regVars, svcVars>>

PoolDirs == { ModelDir(IdWhisper), ModelDir(IdKokoro) }

InitPoolState ==
  /\ adapters = << >>
  /\ last_used = << >>
  /\ cleanup_task = FALSE
  /\ tasks = 0
  /\ sweepPc = "none"
  /\ wakeAt = 0
  /\ toUnload = << >>
  /\ sweepEng = 0
  /\ tickSelected = {}
  /\ engine = << >>
  /\ req = [r \in Reqs |-> IdleReq]
  /\ lastRes = Result("none", << >>)
  /\ now = 0
  /\ download_status = << >>
  /\ lastOp = NoOp

\* a pool over a storage root that holds none or all of the catalog models
InitPool ==
  /\ InitPoolState
  /\ poolKind \in {"stt", "tts"}
  /\ dl = [d \in Dls |-> IdleDl]
  /\ started = {}
  /\ availIds = {}
  /\ delResp = NoDelete
  /\ \E S \in {{}, PoolDirs} : dirs = [d \in S |-> [config |-> TRUE, size |-> 1000]]
  /\ docs = << >>
  /\ providers = DefaultProviders

NextPool ==
  \/ \E r \in Reqs, m \in PoolIds, ok \in BOOLEAN : ReqStart(r, m, ok)
  \/ \E r \in Reqs, ok \in BOOLEAN : ReqLoadDone(r, ok)
  \/ \E r \in Reqs : ReqFinish(r)
  \/ StartCleanupTask
  \/ SweepBegin
  \/ \E ok \in BOOLEAN : SweepUnloadDone(ok)
  \/ Tick

vars == <<dirs, docs, poolKind, adapters, last_used, cleanup_task, tasks, sweepPc, wakeAt,
          toUnload, sweepEng, tickSelected, engine, req, lastRes, now,
          dl, started, availIds, delResp, providers, download_status, lastOp>>

SpecPool == InitPool /\ [][NextPool]_vars

\* a pool whose requests arrive one at a time, with the sweep running
OneReq == CHOOSE r \in Reqs : \A other \in Reqs : r <= other

NextSerial ==
  \/ \E m \in PoolIds, ok \in BOOLEAN : ReqStart(OneReq, m, ok)
  \/ \E ok \in BOOLEAN : ReqLoadDone(OneReq, ok)
  \/ ReqFinish(OneReq)
  \/ StartCleanupTask
  \/ SweepBegin
  \/ \E ok \in BOOLEAN : SweepUnloadDone(ok)
  \/ Tick

SpecSerial == InitPool /\ [][NextSerial]_vars

\* the TTS pool over a storage root that holds the catalog models (the
\* sweep loop of the STT pool is the same code)
InitSweep == InitPool /\ poolKind = "tts" /\ dirs # << >>

\* time passes, the event loop resumes the sweep task when its sleep is
\* over, and an awaited unload_model returns or raises
SpecSweepFair ==
  /\ InitSweep
  /\ [][NextSerial]_vars
  /\ WF_vars(Tick)
  /\ WF_vars(SweepBegin)
  /\ WF_vars(\E ok \in BOOLEAN : SweepUnloadDone(ok))


\* a registry over an empty storage root, no request in any pool
InitRegistry ==
  /\ InitPoolState
  /\ poolKind = "stt"
  /\ dirs = << >>
  /\ docs = << >>
  /\ dl = [d \in Dls |-> IdleDl]
  /\ started = {}
  /\ availIds = {}
  /\ delResp = NoDelete
  /\ providers = Put(DefaultProviders, "mirror", "absent")

NextRegistry ==
  \/ \E d \in Dls, m \in RegIds, prov \in ProviderInputs : DlStart(d, m, prov)
  \/ \E d \in Dls : DlBegin(d)
  \/ \E d \in Dls, c \in Chunks \cup { <<z, z>> : z \in SnapshotSizes }, cfg \in BOOLEAN :
       DlChunk(d, c, cfg)
  \/ \E d \in Dls : DlRaise(d)
  \/ \E d \in Dls, vr \in BOOLEAN : DlStreamEnd(d, vr)
  \/ \E d \in Dls, hm \in BOOLEAN, wo \in BOOLEAN : DlFetchDone(d, hm, wo)
  \/ \E d \in Dls : DlClose(d)
  \/ \E m \in RegIds, rmOk \in BOOLEAN, unlinkOk \in BOOLEAN : DeleteModel(m, rmOk, unlinkOk)

SpecRegistry == InitRegistry /\ [][NextRegistry]_vars

\* one download_model stream at a time, interleaved with delete_model
OneDl == CHOOSE d \in Dls : \A other \in Dls : d <= other

NextStream ==
  \/ \E m \in RegIds, prov \in ProviderInputs : DlStart(OneDl, m, prov)
  \/ DlBegin(OneDl)
  \/ \E c \in Chunks \cup { <<z, z>> : z \in SnapshotSizes }, cfg \in BOOLEAN :
       DlChunk(OneDl, c, cfg)
  \/ DlRaise(OneDl)
  \/ \E vr \in BOOLEAN : DlStreamEnd(OneDl, vr)
  \/ \E hm \in BOOLEAN, wo \in BOOLEAN : DlFetchDone(OneDl, hm, wo)
  \/ DlClose(OneDl)
  \/ \E m \in RegIds, rmOk \in BOOLEAN, unlinkOk \in BOOLEAN : DeleteModel(m, rmOk, unlinkOk)

SpecStream == InitRegistry /\ [][NextStream]_vars

\* one download stream whose consumer may stop pulling it
NextAbandon ==
  \/ \E m \in RegIds, prov \in ProviderNames : DlStart(OneDl, m, prov)
  \/ DlBegin(OneDl)
  \/ \E c \in Chunks \cup { <<z, z>> : z \in SnapshotSizes }, cfg \in BOOLEAN :
       DlChunk(OneDl, c, cfg)
  \/ DlRaise(OneDl)
  \/ \E vr \in BOOLEAN : DlStreamEnd(OneDl, vr)
  \/ \E hm \in BOOLEAN, wo \in BOOLEAN : DlFetchDone(OneDl, hm, wo)
  \/ DlClose(OneDl)
  \/ DlAbandon(OneDl)
  \/ \E z \in SnapshotSizes, cfg \in BOOLEAN : OrphanWrite(OneDl, z, cfg)
  \/ OrphanRaise(OneDl)

SpecAbandon == InitRegistry /\ [][NextAbandon]_vars

\* ================================== registry reads and the metadata cache
\* the size the hub reports when the metadata is fetched again later
RefetchedSize == 1200

\* the metadata download_model hands to the cache for id m
MetadataInputs(m) ==
  { [model_id |-> m, size |-> z, local_path |-> ModelDir(m)] : z \in {HubSize, RefetchedSize} }

\* file contents the cache did not write: a truncated or damaged file, and
\* JSON objects whose attributes hold other values than the registry writes
ForeignDocs ==
  { NotJson, Undecodable,
    JsonDoc([task |-> "asr"]),
    JsonDoc([task |-> "tts"]),
    JsonDoc([actual_parameter_count |-> <<"str", "n/a">>]) }

\* ModelRegistry.add_provider: self.providers[name] = provider
AddProvider(name, kind) ==
  /\ providers' = Put(providers, name, kind)
  /\ UNCHANGED <<fsVars, regVars, poolVars, download_status, lastOp>>

\* ModelMetadataCache.set called from outside a download; a failed write
\* raises and leaves the file as it was or truncated
CacheSetOp(m, metadata, writeOk) ==
  /\ IF writeOk
       THEN docs' = CacheSet(m, metadata)
       ELSE docs' \in {docs, MapPut(docs, CachePath(m), NotJson)}
  /\ lastOp' = [op |-> "set", id |-> m, ret |-> writeOk,
                had |-> CachePath(m) \in DOMAIN docs]
  /\ UNCHANGED <<dirs, regVars, poolVars, providers, download_status>>

\* ModelMetadataCache.delete: true when the file existed and was unlinked
CacheDeleteOp(m, unlinkOk) ==
  LET had == CachePath(m) \in DOMAIN docs IN
  /\ docs' = IF had /\ unlinkOk THEN MapDel(docs, CachePath(m)) ELSE docs
  /\ lastOp' = [op |-> "delete", id |-> m, ret |-> had /\ unlinkOk, had |-> had]
  /\ UNCHANGED <<dirs, regVars, poolVars, providers, download_status>>

\* the file of id m is changed behind the cache's back
ForeignWrite(m, doc) ==
  /\ docs' = MapPut(docs, CachePath(m), doc)
  /\ UNCHANGED <<dirs, regVars, poolVars, svcVars>>

\* the directory names of the ids the registry is asked about
CatalogDirs == { ModelDir(m) : m \in RegIds }

\* a registry over a storage root that holds some models downloaded earlier
InitCatalog ==
  /\ InitPoolState
  /\ poolKind = "stt"
  /\ \E S \in SUBSET CatalogDirs : dirs = [d \in S |-> [config |-> TRUE, size |-> 1000]]
  /\ docs = << >>
  /\ dl = [d \in Dls |-> IdleDl]
  /\ started = {}
  /\ availIds = {}
  /\ delResp = NoDelete
  /\ providers = DefaultProviders

NextCatalog ==
  \/ \E kind \in ProviderKinds : AddProvider("mirror", kind)
  \/ \E m \in RegIds, wo \in BOOLEAN : \E md \in MetadataInputs(m) : CacheSetOp(m, md, wo)
  \/ \E m \in RegIds, uo \in BOOLEAN : CacheDeleteOp(m, uo)
  \/ \E m \in RegIds, doc \in ForeignDocs : ForeignWrite(m, doc)

SpecCatalog == InitCatalog /\ [][NextCatalog]_vars

\* ====================================================== ModelService
\* the background download tasks of the model routes
Tasks == 1..MaxTasks

\* the lowest free slot for a background task
FreeTask == CHOOSE d \in DOMAIN dl : dl[d].pc = "idle" /\ \A o \in DOMAIN dl : dl[o].pc = "idle" => d <= o

\* POST /v1/models/{id}/download: 404 when get_model returns nothing, else
\* the download task is handed to BackgroundTasks and the initial snapshot
\* is answered; the task runs after the response has been sent
PostDownload(m) ==
  /\ \E d \in DOMAIN dl : dl[d].pc = "idle"
  /\ IF GetModel(m) = {}
       THEN UNCHANGED dl
       ELSE dl' = [dl EXCEPT ![FreeTask] = [IdleDl EXCEPT !.pc = "queued", !.id = m, !.svc = TRUE]]
  /\ delResp' = Settled
  /\ UNCHANGED <<fsVars, started, availIds, poolVars, svcVars>>

\* the background task starts ModelService.download_model: the status of
\* the id becomes the starting snapshot, then the first pull on the
\* registry stream (default provider) yields the initial event, whose
\* snapshot replaces it before anything else can run
TaskStart(d) ==
  /\ dl[d].pc = "queued"
  /\ started' = started \cup {dl[d].id}
  /\ dl' = [dl EXCEPT ![d] = [IdleDl EXCEPT !.pc = "yielded0", !.id = dl[d].id,
                                 !.prov = "huggingface", !.svc = TRUE,
                                 !.events = <<InitialEvent>>]]
  /\ download_status' = MapPut(download_status, dl[d].id, Snapshot(InitialEvent))
  /\ delResp' = IF delResp.id = dl[d].id THEN NoDelete ELSE Settled
  /\ UNCHANGED <<fsVars, availIds, poolVars, providers, lastOp>>

\* a model service over an empty storage root
InitService ==
  /\ InitPoolState
  /\ poolKind = "stt"
  /\ dirs = << >>
  /\ docs = << >>
  /\ dl = [d \in Tasks |-> IdleDl]
  /\ started = {}
  /\ availIds = {}
  /\ delResp = NoDelete
  /\ providers = DefaultProviders

NextService ==
  \/ \E m \in RegIds : PostDownload(m)
  \/ \E d \in Tasks : TaskStart(d)
  \/ \E d \in Tasks : DlBegin(d)
  \/ \E d \in Tasks, c \in { <<z, z>> : z \in SnapshotSizes }, cfg \in BOOLEAN : DlChunk(d, c, cfg)
  \/ \E d \in Tasks : DlRaise(d)
  \/ \E d \in Tasks, vr \in BOOLEAN : DlStreamEnd(d, vr)
  \/ \E d \in Tasks, hm \in BOOLEAN, wo \in BOOLEAN : DlFetchDone(d, hm, wo)
  \/ \E d \in Tasks : DlClose(d)

SpecService == InitService /\ [][NextService]_vars

\* ============================================================ pool claims

\* C1: acquires of one model id that overlap while no handle is stored
\* share a single load_model invocation and so a single engine instance:
\* no two handlers are inside load_model for the same id with different
\* engines.
C1_SingleLoadPerId ==
  \A r1, r2 \in Reqs :
    (req[r1].pc = "loading" /\ req[r2].pc = "loading" /\ req[r1].id = req[r2].id)
      => req[r1].eng = req[r2].eng

\* C2: every engine whose load has completed and whose unload has not been
\* invoked is the engine stored in the handle map under its model id.
C2_LoadedEngineIsStored ==
  \A e \in 1..Len(engine) :
    engine[e].state = "loaded"
      => (engine[e].id \in DOMAIN adapters /\ adapters[engine[e].id] = e)

\* C3: when a tick ends, every handle that was idle when the tick began is
\* gone from the handle map and the last-used map (or its id has since been
\* taken by another engine) and unload_model was invoked exactly once on it.
C3_IdleHandleEvicted ==
  [][ (sweepPc = "unloading" /\ sweepPc' = "sleeping") =>
        \A p \in tickSelected :
          /\ \/ (p[1] \notin DOMAIN adapters' /\ p[1] \notin Keys(last_used'))
             \/ (p[1] \in DOMAIN adapters' /\ adapters'[p[1]] # p[2])
          /\ engine'[p[2]].unloads = 1 ]_vars

\* C4: a request that holds a handle (acquire has returned, the engine call
\* has not) never holds an engine whose unload_model has been invoked.
C4_NoUnloadWhileInUse ==
  \A r \in Reqs : req[r].pc = "using" => engine[req[r].eng].state = "loaded"


\* ======================================================== registry claims
Status(e) == e[3]
LastEvent(d) == dl[d].events[Len(dl[d].events)]

ForwardedThenAvailable(d) ==
  LET n == Len(dl[d].reported) IN
  [i \in 1..(n + 1) |->
     IF i <= n THEN <<dl[d].reported[i][1], dl[d].reported[i][2], "downloading">>
     ELSE <<dl[d].reported[n][2], dl[d].reported[n][2], "available">>]

Succeeded(d) ==
  dl[d].pc = "done" /\ dl[d].verified /\ ~dl[d].setFailed /\ dl[d].reported # << >>

C7_InitialEventThenForwarded ==
  \A d \in Dls :
    LET n == Len(dl[d].reported) IN
    /\ dl[d].events # << >> => dl[d].events[1] = <<0, 0, "downloading">>
    /\ dl[d].pc = "yielded0" => (~dl[d].provStarted /\ Len(dl[d].events) = 1)
    /\ dl[d].provStarted =>
         /\ Len(dl[d].events) \in {n + 1, n + 2}
         /\ \A i \in 1..n :
              dl[d].events[i + 1] = <<dl[d].reported[i][1], dl[d].reported[i][2], "downloading">>
         /\ Len(dl[d].events) = n + 2 => dl[d].pc = "done"

\* C7 witness: two different reports have been forwarded
C7_Witness ==
  \E d \in Dls : /\ dl[d].pc = "transfer"
                 /\ Len(dl[d].reported) = 2
                 /\ dl[d].reported[1] # dl[d].reported[2]
                 /\ Len(dl[d].events) = 3

ReportsNonDecreasing(d) ==
  \A i, j \in 1..Len(dl[d].reported) :
    i < j => dl[d].reported[i][1] <= dl[d].reported[j][1]

\* C8: when the provider's downloaded counts are non-decreasing, the
\* downloaded counts of the events received before the terminal event are
\* non-decreasing in the order received.
C8_DownloadedNonDecreasing ==
  \A d \in Dls : ReportsNonDecreasing(d) =>
    \A i, j \in 1..Len(dl[d].events) :
      (i < j /\ Status(dl[d].events[i]) = "downloading" /\ Status(dl[d].events[j]) = "downloading")
        => dl[d].events[i][1] <= dl[d].events[j][1]

\* C8 witness: a finished stream whose provider reported 400 and then 1000
C8_Witness ==
  \E d \in Dls : /\ dl[d].pc = "done"
                 /\ Len(dl[d].reported) = 2
                 /\ dl[d].reported[1][1] < dl[d].reported[2][1]

\* C9: an id whose download ended with the available event (and that was
\* not deleted since) has a model path, and list_models has a descriptor
\* with exactly that id, status available and the size of the cache
\* document if there is one, else of the files in the directory.
C9_AvailableIsListed ==
  \A m \in availIds :
    /\ GetModelPath(m) # None
    /\ \E x \in ListModels(NoFilter, NoFilter) :
         /\ x.id = m
         /\ x.status = "available"
         /\ x.size = IF CacheGet(m) # {} THEN (CHOOSE c \in CacheGet(m) : TRUE).size
                     ELSE dirs[ModelDir(m)].size

\* C10: an id for which no download was ever started has no model path and
\* is in no list_models result.
C10_NeverDownloadedIsAbsent ==
  \A m \in RegIds \ started :
    /\ GetModelPath(m) = None
    /\ \A x \in ListModels(NoFilter, NoFilter) : x.id # m

\* ========================================================== delete claims

\* C11: after delete_model(id) found the storage directory of id (no
\* file-system fault, no download of id in flight), it returned true and,
\* until a download of id is started, the storage directory and the cache
\* document of id are absent and get_model(id) does not report available.
C11_DeletedStaysAbsent ==
  (delResp.code # 0 /\ delResp.existed) =>
    /\ delResp.ret
    /\ ModelDir(delResp.id) \notin DOMAIN dirs
    /\ CachePath(delResp.id) \notin DOMAIN docs
    /\ \A g \in GetModel(delResp.id) : g.status # "available"

\* C12: a DELETE call that finds no storage directory for the id returns
\* false, is answered 404, and leaves the storage root, the metadata cache
\* and the pool unchanged.
C12_DeleteAbsentIsNoOp ==
  [][ (delResp' # delResp /\ delResp'.code # 0 /\ ~delResp'.existed) =>
        /\ ~delResp'.ret
        /\ delResp'.code = 404
        /\ UNCHANGED <<dirs, docs, poolVars>> ]_vars

\* C12 witness: an id that was downloaded and deleted is deleted again
C12_Witness ==
  /\ delResp.code = 404 /\ ~delResp.existed /\ ~delResp.ret
  /\ delResp.id \in started
  /\ dirs # << >>

\* ============================================= acquire and sweep failures

\* the pool's task fits the model: transcribe does not look at the task,
\* synthesize wants a tts model
TaskFits(m) == poolKind = "stt" \/ ProviderGetModelInfo(m).task = "tts"

\* what C13 promises of a request for m
FailsNotDownloaded(m) ==
  /\ lastRes' = [kind |-> "not_downloaded",
                 msg |-> <<"Model ", m, " not downloaded. Download it first: POST /v1/models/",
                           m, "/download">>]
  /\ UNCHANGED <<engine, adapters, last_used>>

\* C13 as stated: a request for any id the registry knows whose storage
\* directory does not exist ends with the not-downloaded error naming the
\* id and the download operation, creates no engine and adds no entry.
C13_NotDownloadedForKnownId ==
  [][ \A m \in PoolIds : (GetModelPath(m) = None /\ RegistryKnows(m)) =>
        \A r \in Reqs, ok \in BOOLEAN :
          ReqStart(r, m, ok) => FailsNotDownloaded(m) ]_vars

\* C13 amended: the same for an id whose task fits the pool; synthesize
\* rejects a known speech-to-text id with the not-a-TTS-model error before
\* it looks for the directory, again without engine or entry.
C13_NotDownloadedWhenTaskFits ==
  [][ \A m \in PoolIds : (GetModelPath(m) = None /\ RegistryKnows(m)) =>
        \A r \in Reqs, ok \in BOOLEAN :
          ReqStart(r, m, ok) =>
            IF TaskFits(m) THEN FailsNotDownloaded(m)
            ELSE /\ lastRes' = [kind |-> "not_tts", msg |-> <<"Model ", m, " is not a TTS model">>]
                 /\ UNCHANGED <<engine, adapters, last_used>> ]_vars

\* C13 witness: a pool that already holds a handle has refused a request
\* for a model that is not downloaded
C13_Witness ==
  /\ lastRes.kind = "not_downloaded"
  /\ lastRes.msg[2] = IdKokoro
  /\ DOMAIN adapters # {}

\* the step in which the load_model of engine e raised
LoadFailed(e) ==
  /\ e \in 1..Len(engine')
  /\ engine'[e].state = "failed"
  /\ (e > Len(engine) \/ engine[e].state # "failed")

\* C14: when load_model raises the error reaches the caller and the pool
\* then holds no handle and no last-used entry for that id.
C14_LoadFailureLeavesNoEntry ==
  [][ \A e \in 1..MaxEngines : LoadFailed(e) =>
        /\ lastRes'.kind = "load_error"
        /\ engine'[e].id \notin DOMAIN adapters'
        /\ engine'[e].id \notin Keys(last_used') ]_vars

\* the step in which the unload_model awaited by the sweep raised
UnloadFailed ==
  /\ sweepPc = "unloading"
  /\ engine'[sweepEng].state = "broken"

\* C15: in a tick in which one unload_model raised, every other handle
\* that was idle when the tick began has been unloaded and removed from
\* both maps when the tick ends.
C15_OtherIdleIdsStillEvicted ==
  [][ UnloadFailed =>
        \A p \in tickSelected : p[2] # sweepEng =>
          /\ engine'[p[2]].unloads >= 1
          /\ \/ (p[1] \notin DOMAIN adapters' /\ p[1] \notin Keys(last_used'))
             \/ (p[1] \in DOMAIN adapters' /\ adapters'[p[1]] # p[2]) ]_vars

\* the last instant of the modelled time
LastTime == MaxTicks * SweepInterval

\* an unload_model has raised and the tick it raised in is over
TickFailedBefore ==
  /\ sweepPc # "unloading"
  /\ \E e \in 1..Len(engine) : engine[e].state = "broken"

C17_FailedUnloadStillRemoved ==
  [][ UnloadFailed =>
        /\ Head(toUnload) \notin DOMAIN adapters'
        /\ Head(toUnload) \notin Keys(last_used') ]_vars

\* C18: at most one sweep task is ever created, it exists exactly when
\* _cleanup_task is set, and a start_cleanup_task call that finds a task
\* changes nothing in the pool.
C18_StartIsIdempotent ==
  [][ /\ tasks' <= 1
      /\ cleanup_task' = (tasks' = 1)
      /\ (StartCleanupTask /\ cleanup_task) =>
           UNCHANGED <<poolKind, adapters, last_used, cleanup_task, tasks, sweepPc, wakeAt,
                       toUnload, sweepEng, tickSelected, engine, req, now>> ]_vars

\* C18 witness: start_cleanup_task was called again while the sweep was
\* in the middle of a tick
C18_Witness ==
  /\ lastRes.kind = "task_exists"
  /\ tasks = 1
  /\ sweepPc = "unloading"

\* ===================================================== verification claims

\* the directory of the stream's model holds the files verify_model wants
HasConfig(d) ==
  /\ ModelDir(dl[d].id) \in DOMAIN dirs
  /\ dirs[ModelDir(dl[d].id)].config

\* C19: when the provider's stream has ended and verify_model returns
\* false, the stream ends with the error event, carries no available event,
\* and the metadata cache is left as it was.
C19_VerifyFalseEndsInError ==
  [][ \A d \in Dls : (DlStreamEnd(d, FALSE) /\ ~HasConfig(d)) =>
        /\ dl'[d].pc = "done"
        /\ dl'[d].events[Len(dl'[d].events)] = <<0, 0, "error">>
        /\ \A i \in 1..Len(dl'[d].events) : Status(dl'[d].events[i]) # "available"
        /\ docs' = docs ]_vars

\* C19 witness: a download whose files failed verification has ended in the
\* error event while a cache document for its id exists
C19_Witness ==
  \E d \in Dls :
    /\ dl[d].pc = "done"
    /\ dl[d].reported # << >>
    /\ ~dl[d].verified
    /\ ~HasConfig(d)
    /\ LastEvent(d) = <<0, 0, "error">>
    /\ CachePath(dl[d].id) \in DOMAIN docs

\* C20: when the provider's stream has ended without raising, after any
\* number of progress reports, and verify_model returns true, the terminal
\* event is available, with or without fetched metadata.
C20_VerifiedEndsAvailable ==
  [][ \A d \in Dls :
        (\/ (DlStreamEnd(d, FALSE) /\ HasConfig(d) /\ ~HasFetchMetadata(dl[d].prov))
         \/ (\E hm \in BOOLEAN : DlFetchDone(d, hm, TRUE)))
          => /\ dl'[d].pc = "done"
             /\ Status(dl'[d].events[Len(dl'[d].events)]) = "available" ]_vars

\* ========================================== escaping and cache claims
\* id m is in use: it has a storage directory or a metadata document
InUse(m) == ModelDir(m) \in DOMAIN dirs \/ CachePath(m) \in DOMAIN docs

\* C21: the mapping between a model id and its directory name is
\* reversible (decoding the encoded id gives the id back), and two distinct
\* ids never map to the same directory name nor the same metadata file name
C21_EscapingReversible ==
  \A a \in RegIds : InUse(a) =>
    /\ Decode(ModelDir(a)) = a
    /\ \A b \in RegIds \ {a} :
         ModelDir(b) # ModelDir(a) /\ CachePath(b) # CachePath(a)

\* the step is a write, a delete or a corruption of the document of id a
TouchesDocOf(a) ==
  \/ \E wo \in BOOLEAN : \E md \in MetadataInputs(a) : CacheSetOp(a, md, wo)
  \/ \E uo \in BOOLEAN : CacheDeleteOp(a, uo)
  \/ \E doc \in ForeignDocs : ForeignWrite(a, doc)

\* list_models returns a descriptor for directory n
Lists(n) == ~ListModelsRaises /\ \E x \in ListModels(NoFilter, NoFilter) : x.local_path = n

\* C22: for distinct ids a and b, a write, delete or corruption of a's
\* cache document never changes what get(b) returns, and never stops
\* list_models from returning the other locally available models
C22_OtherIdsUnaffected ==
  [][ \A a \in RegIds : TouchesDocOf(a) =>
        \A b \in RegIds \ {a} :
          /\ CacheGet(b)' = CacheGet(b)
          /\ CacheGetRaises(b)' = CacheGetRaises(b)
          /\ (ModelDir(b) # ModelDir(a) /\ Lists(ModelDir(b))) => Lists(ModelDir(b))' ]_vars

\* the document of id m exists and cannot be read or parsed
Unparsable(m) == CachePath(m) \in DOMAIN docs /\ docs[CachePath(m)].form # "json"

\* C23: when the stored document of an id cannot be read or parsed, get(id)
\* returns absent and raises nothing, and list_models still lists the model,
\* with the size summed from the files of its directory
C23_UnparsableDocIsAbsent ==
  \A m \in RegIds : Unparsable(m) =>
    /\ ~CacheGetRaises(m)
    /\ CacheGet(m) = {}
    /\ (ModelDir(m) \in DOMAIN dirs
        /\ \A n \in ListedDirs \ {ModelDir(m)} : ~ListRaisesAt(n)) =>
          /\ ~ListModelsRaises
          /\ \E x \in ListModels(NoFilter, NoFilter) :
               x.local_path = ModelDir(m) /\ x.size = dirs[ModelDir(m)].size

Answering(m) ==
  { i \in 1..Len(providers) :
      ~ProviderRaises(providers[i][2], m) /\ ProviderInfo(providers[i][2], m) # {} }

\* C25: whatever the state of the cache document of an id (present, absent,
\* unparsable, or holding arbitrary attribute values), get_model and
\* list_models report the id as available exactly when its storage
\* directory exists
C25_AvailabilityIgnoresCache ==
  /\ \A m \in RegIds : Answering(m) # {} =>
       ((\E g \in GetModel(m) : g.status = "available") <=> ModelDir(m) \in DOMAIN dirs)
  /\ \A n \in ListedDirs :
       /\ ~ListModelsRaises
       /\ \E x \in ListModels(NoFilter, NoFilter) :
            x.local_path = n /\ x.status = "available"

\* the optional arguments of list_models that are tried
TaskFilters == {NoFilter, "stt", "tts"}
StatusFilters == {NoFilter, "available", "downloading"}

C27_FirstAnsweringProviderWins ==
  \A m \in RegIds :
    IF Answering(m) = {}
      THEN GetModel(m) = {}
      ELSE LET first == CHOOSE i \in Answering(m) : \A j \in Answering(m) : i <= j
               info == CHOOSE x \in ProviderInfo(providers[first][2], m) : TRUE
           IN \E g \in GetModel(m) :
                g.id = info.id /\ g.task = info.task /\ g.backend = info.backend

\* ================================================ download status claims
\* the statuses a finished download leaves behind
Terminal == {"available", "error"}

\* C28: ModelService keeps one download status per id: a downloading
\* snapshot with zero progress when the download starts, replaced by the
\* snapshot of each event the registry stream yields; once the stream has
\* ended the status is available or error, and it stays as it is until
\* another download of the same id starts
C28_StatusFollowsDownload ==
  [][ \A d \in DOMAIN dl :
        /\ TaskStart(d) =>
             download_status'[dl[d].id] =
               [status |-> "downloading", progress |-> 0,
                downloaded_bytes |-> 0, total_bytes |-> 0]
        /\ (dl'[d].svc /\ dl[d].pc # "idle" /\ Len(dl'[d].events) > Len(dl[d].events)) =>
             LET e == dl'[d].events[Len(dl'[d].events)] IN
               /\ download_status'[dl[d].id].status = e[3]
               /\ download_status'[dl[d].id].downloaded_bytes = e[1]
               /\ download_status'[dl[d].id].total_bytes = e[2]
        /\ (dl'[d].svc /\ dl[d].pc # "done" /\ dl'[d].pc = "done") =>
             download_status'[dl'[d].id].status \in Terminal
        /\ \A m \in DOMAIN download_status :
             (download_status[m].status \in Terminal /\ download_status'[m] # download_status[m])
               => \E o \in DOMAIN dl : TaskStart(o) /\ dl[o].id = m ]_vars

\* the download of the id of task d was asked for and has not ended
InFlight(d) == dl[d].svc /\ dl[d].pc \in {"queued", "yielded0", "transfer", "fetching"}

\* C29: from the moment the download endpoint has accepted a download of a
\* catalog model until that download has ended with the available event,
\* get_model(id) reports downloading or available, never not_downloaded
\* or error
C29_DownloadingOrAvailable ==
  \A d \in DOMAIN dl :
    (InFlight(d) \/ (dl[d].svc /\ dl[d].pc = "done" /\ Succeeded(d))) =>
      \A g \in GetModel(dl[d].id) : g.status \in {"downloading", "available"}

NamedTasks == {"stt", "tts", "asr"}
GivenTasks == NamedTasks \cup {""}

\* C31 as stated: every descriptor list_models(task=t) returns has task t
\* and status available, for every t that is passed.
C31_OnlyTaskT ==
  \A t \in GivenTasks, f \in StatusFilters : \A x \in ListModels(t, f) :
    x.task = t /\ x.status = "available"

\* C31: for a non-empty t, every descriptor list_models(task=t) returns has
\* task t, and every descriptor list_models returns, filtered or not, has
\* status available.
C31_OnlyTaskTWhenNamed ==
  /\ \A t \in NamedTasks, f \in StatusFilters : \A x \in ListModels(t, f) : x.task = t
  /\ \A t \in GivenTasks \cup {NoFilter}, f \in StatusFilters :
       \A x \in ListModels(t, f) : x.status = "available"

\* two models are stored, one with a document that says tts: the tts
\* filter returns that one only, the stt filter the other one only
C31_Witness ==
  /\ ~ListModelsRaises
  /\ Cardinality(ListModels(NoFilter, NoFilter)) = 2
  /\ Cardinality(ListModels("tts", "available")) = 1
  /\ Cardinality(ListModels("stt", "available")) = 1
  /\ ListModels("asr", NoFilter) = {}

\* ============================================================== sweep claims
\* this step invokes unload_model on engine e
UnloadInvoked(e) == engine'[e].unloads > engine[e].unloads

C35_SameKeys ==
  /\ Keys(last_used) = DOMAIN adapters
  /\ Len(last_used) = Cardinality(Keys(last_used))

\* one unload has removed a handle with its timestamp, another has
\* failed and left its handle stored with its timestamp
C35_Witness ==
  /\ \E i \in 1..Len(engine) : engine[i].state = "unloaded"
  /\ \E i \in 1..Len(engine) : engine[i].state = "broken"
  /\ Cardinality(DOMAIN adapters) = 1
  /\ Len(last_used) = 1

\* ============================================== download and cache claims
\* the cache document at path p was created or overwritten by this step
Written(p) == p \in DOMAIN docs' /\ (p \notin DOMAIN docs \/ docs'[p] # docs[p])

\* C33: a cache document is created or overwritten only by download_model,
\* after verify_model returned true for that download, at the path of the
\* downloaded id, stamped with the id's storage directory as local_path;
\* the write is complete when the available event is yielded, and a failed
\* write is followed by no available event
C33_DocWrittenOnlyAfterVerify ==
  [][ /\ \A p \in DOMAIN docs' : Written(p) =>
           \E d \in Dls :
             /\ dl[d].pc = "fetching" /\ dl[d].verified
             /\ p = CachePath(dl[d].id)
             /\ docs'[p] = JsonDoc([model_id |-> dl[d].id, size |-> HubSize,
                                    local_path |-> ModelDir(dl[d].id), cached_at |-> now])
             /\ Status(dl[d].events[Len(dl[d].events)]) = "downloading"
             /\ Status(dl'[d].events[Len(dl'[d].events)]) = "available"
      /\ \A d \in Dls : (dl[d].pc = "fetching" /\ dl'[d].setFailed) =>
           /\ docs' = docs
           /\ Status(dl'[d].events[Len(dl'[d].events)]) = "error" ]_vars

\* a verified download has written its document and ended with available
C33_Witness ==
  \E d \in Dls :
    /\ Succeeded(d)
    /\ dl[d].prov = "huggingface"
    /\ dl[d].id = AliasWhisper
    /\ Status(LastEvent(d)) = "available"
    /\ CachePath(AliasWhisper) \in DOMAIN docs
    /\ docs[CachePath(AliasWhisper)].attrs.local_path = ModelDir(AliasWhisper)

\* C36: when a download_model(id) that overlapped a delete_model(id) ends,
\* a cache document of id or an available event is left only if the
\* storage directory of id exists
C36_NoDocWithoutDirectory ==
  [][ \A d \in Dls : (dl[d].pc # "done" /\ dl'[d].pc = "done" /\ dl'[d].events # << >>) =>
        ((\/ CachePath(dl[d].id) \in DOMAIN docs'
          \/ Status(dl'[d].events[Len(dl'[d].events)]) = "available")
           => ModelDir(dl[d].id) \in DOMAIN dirs') ]_vars

\* C37: get_model and list_models report an id as available only if a
\* download of the id has ended with the available event and the id has
\* not been deleted since
C37_AvailableOnlyAfterDownload ==
  /\ \A m \in RegIds : \A g \in GetModel(m) : g.status = "available" => m \in availIds
  /\ \A x \in ListModels(NoFilter, NoFilter) : x.status = "available" => x.id \in availIds

\* C38: after download_model(alias) has ended with available (and nothing
\* was deleted since), get_model of the full id reports available with the
\* local_path get_model of the alias reports, and both ids have one model
\* path
C38_AliasAndIdSameModel ==
  \A d \in Dls :
    (Succeeded(d) /\ dl[d].id = AliasWhisper /\ AliasWhisper \in availIds) =>
      /\ GetModel(IdWhisper) # {}
      /\ \A g \in GetModel(IdWhisper) : \A a \in GetModel(AliasWhisper) :
           g.status = "available" /\ g.local_path = a.local_path
      /\ GetModelPath(AliasWhisper) = GetModelPath(IdWhisper)

\* C39: for every stored model, list_models and get_model give the same
\* task and backend, and list_models(task=t) holds every stored model whose
\* provider-declared task is t
C39_ListAndGetAgree ==
  /\ \A x \in ListModels(NoFilter, NoFilter) : \A g \in GetModel(x.id) :
       x.task = g.task /\ x.backend = g.backend
  /\ \A m \in RegIds : ModelDir(m) \in DOMAIN dirs =>
       \A g \in GetModel(m) : \E x \in ListModels(g.task, NoFilter) : x.local_path = ModelDir(m)

\* C34: once the consumer has stopped pulling a stream before its terminal
\* event, the provider's transfer is cancelled: nothing more is written to
\* the storage directory of the id
C34_NoBytesAfterAbandon ==
  [][ \A d \in Dls : dl[d].abandoned =>
        (ModelDir(dl[d].id) \in DOMAIN dirs' =>
           /\ ModelDir(dl[d].id) \in DOMAIN dirs
           /\ dirs'[ModelDir(dl[d].id)] = dirs[ModelDir(dl[d].id)]) ]_vars
====
